---- MODULE Spec2Model ----
(***************************************************************************)
(* Model of the database layer of the Express backend templates:           *)
(*   - DatabaseManager (database/index): initialize, get, default, has,    *)
(*     providers, disconnect;                                              *)
(*   - the SQL adapters (PostgreSQL, MySQL, NeonDB): connect, disconnect,   *)
(*     transaction.                                                        *)
(* Every await of the source is a step boundary: the code between two      *)
(* awaits runs as one action.  Driver calls (pool.connect, pool.end,       *)
(* BEGIN/COMMIT/ROLLBACK, the transaction body) succeed or fail            *)
(* nondeterministically.                                                   *)
(*                                                                         *)
(* Spec:     one manager call at a time (each call awaited).               *)
(* SpecConc: initialize() and disconnect() calls overlap.                  *)
(* SpecTx:   an SQL adapter constructed on its own, connect() and          *)
(*           transaction() on it.                                          *)
(***************************************************************************)
EXTENDS Integers, Sequences, FiniteSets, TLC

\* ---- bounds ------------------------------------------------------------
MaxProviders == 2      \* entries of config.providers
MaxInst == 2           \* adapter instances constructed during one run
MaxCalls == 2          \* initialize() calls that may be in flight together
MaxWrites == 2         \* writes a transaction body performs
MaxTx == 1             \* transaction() calls on one adapter
MaxClosers == 2        \* callers of disconnect() that may overlap
MaxDocs == 2           \* documents a collection holds
MaxTicks == 3          \* advances of the clock
MaxValue == 1          \* the largest number held in the cache
MaxRows == 2           \* rows a statement affects
MaxKeys == 2           \* keys of the data and of the where object

\* ---- provider identifiers and settings ---------------------------------
\* keys of adapterFactories that are modelled
KnownProviders == {"postgresql", "neondb"}
\* an identifier with no entry in adapterFactories
UnknownProviders == {"oracle"}
ProviderIds == KnownProviders \cup UnknownProviders

Null == "null"

\* provider settings: "none" is a falsy providerConfig, "bad" lacks a field
\* the adapter constructor requires, "ok" passes the constructor, "pooled"
\* is a NeonDB configuration with pooled: true
SettingsOf(p) ==
    IF p = "neondb" THEN {"bad", "ok", "pooled"}
    ELSE IF p = "postgresql" THEN {"none", "bad", "ok"}
    ELSE {"ok"}

Entries == {e \in [id : ProviderIds, settings : {"none", "bad", "ok", "pooled"}] :
              e.settings \in SettingsOf(e.id)}

RECURSIVE SeqsUpTo(_, _)
SeqsUpTo(S, n) ==
    IF n = 0 THEN {<<>>}
    ELSE LET shorter == SeqsUpTo(S, n - 1)
         IN  shorter \cup {Append(s, x) : s \in shorter, x \in S}

\* the keys of an object are distinct
DistinctIds(es) == \A i, j \in 1..Len(es) : i # j => es[i].id # es[j].id

ProviderLists == {es \in SeqsUpTo(Entries, MaxProviders) : DistinctIds(es)}

\* a config with no providers field
NoProviders == [default |-> Null, hasProviders |-> FALSE, providers |-> <<>>]

Configs ==
    {NoProviders} \cup
    [default : ProviderIds \cup {Null}, hasProviders : {TRUE}, providers : ProviderLists]

\* the configs the overlapping calls are given: every entry passes its
\* constructor and no default is named
ConcConfigs ==
    {cfg \in Configs :
        /\ cfg.hasProviders
        /\ cfg.default = Null
        /\ \A k \in 1..Len(cfg.providers) :
              /\ cfg.providers[k].id \in KnownProviders
              /\ cfg.providers[k].settings \in {"ok", "pooled"}}

\* ---- state -------------------------------------------------------------
VARIABLES
    adapters,         \* DatabaseManager.adapters: Map in insertion order, <<[key, inst]>>
    defaultProvider,  \* DatabaseManager.defaultProvider
    initialized,      \* DatabaseManager.initialized
    inst,             \* every adapter instance constructed so far
    calls,            \* frames of the initialize() calls
    disc,             \* frame of the disconnect() call
    last,             \* the last completed manager call and its outcome
    health,           \* frame of the healthCheck() call and the mapping it returned
    txs,              \* frames of the transaction() calls
    conns,            \* the pooled connections of the adapter under transaction
    committed,        \* the writes a query on any other connection sees
    closers,          \* frames of the callers of disconnect(): direct calls, signal handlers
    exited,           \* process.exit() was called
    docs,             \* the documents of one collection: the value of their field
    dop,              \* frame of the collection operation
    store,            \* MemoryCache.store: key -> entry
    now,              \* Date.now(), in milliseconds
    cres,             \* the last call on the cache and what it returned
    inv,              \* frame of the invalidateOnWrite() call
    sqlcall           \* the last SQL helper call: its input and what it produced

txVars == <<txs, conns, committed>>
closeVars == <<closers, exited>>
docVars == <<docs, dop>>
auxVars == <<closers, exited, docs, dop>>
cacheVars == <<store, now, cres, inv>>
restVars == <<store, now, cres, inv, sqlcall>>
vars == <<adapters, defaultProvider, initialized, inst, calls, disc, last, health, txs,
          conns, committed, closers, exited, docs, dop, store, now, cres, inv, sqlcall>>

CallIds == 1..MaxCalls

\* config: the argument; promises: connectionPromises, connects: the number of
\* connect() calls pushed onto it; skipped: the providers the loop logged and
\* passed over ("Unknown database provider", "Failed to create ... adapter")
IdleCall == [pc |-> "idle", config |-> NoProviders, promises |-> {}, connects |-> 0,
             skipped |-> {}]
IdleDisc == [pc |-> "idle", promises |-> {}]
\* pos: where the iterator over the Map stands; results: the entries of the
\* results object in the order they were assigned
IdleHealth == [pc |-> "idle", pos |-> 0, results |-> <<>>]
\* trip: how the round trip of an adapter operation ended, "none" when the
\* operation sent nothing to the driver
NoCall == [op |-> "none", outcome |-> "none", skipped |-> {}, trip |-> "none"]
\* what a lookup gives back: an adapter, or an error and its message
NoAnswer == [ok |-> TRUE, adapter |-> 0, error |-> "none", name |-> Null,
             available |-> <<>>]

\* ---- the adapters Map ---------------------------------------------------
Keys(m) == [i \in 1..Len(m) |-> m[i].key]
KeySet(m) == {m[i].key : i \in 1..Len(m)}
MapHas(m, k) == k \in KeySet(m)
MapGet(m, k) == LET i == CHOOSE i \in 1..Len(m) : m[i].key = k IN m[i].inst
\* Map.set keeps the position of a key that is already present
MapSet(m, k, v) ==
    IF MapHas(m, k)
    THEN [i \in 1..Len(m) |-> IF m[i].key = k THEN [key |-> k, inst |-> v] ELSE m[i]]
    ELSE Append(m, [key |-> k, inst |-> v])

\* ---- adapter instances --------------------------------------------------
\* the adapters whose handle is a plain client (NeonDB: sql, Supabase:
\* client), kept in the field sql; the others hold a pool
ClientKinds == {"neondb", "supabase"}

\* constructor: throws on settings that lack a required field
ConstructorThrows(p, settings) == settings = "bad"

NewAdapter(p, settings) ==
    [provider |-> p, pooled |-> (p = "neondb" /\ settings = "pooled"),
     sql |-> FALSE, pool |-> FALSE, connected |-> FALSE,
     connectP |-> "none", disconnectP |-> "none"]

\* a connect() that reports connected before the test connection came back
ConnectCallEager(a) ==
    IF a.connected THEN [a EXCEPT !.connectP = "fulfilled"]
    ELSE IF a.provider \in ClientKinds
         THEN [a EXCEPT !.sql = TRUE, !.pool = a.pooled, !.connected = TRUE,
                        !.connectP = "pending"]
         ELSE [a EXCEPT !.pool = TRUE, !.connected = TRUE, !.connectP = "pending"]

\* connect() up to its first await
ConnectCall(a) ==
    IF a.connected THEN [a EXCEPT !.connectP = "fulfilled"]
    ELSE IF a.provider \in ClientKinds
         THEN [a EXCEPT !.sql = TRUE, !.pool = a.pooled, !.connectP = "pending"]
         ELSE [a EXCEPT !.pool = TRUE, !.connectP = "pending"]

\* connect() after the test connection settled
ConnectResume(a, ok) ==
    IF ok THEN [a EXCEPT !.connected = TRUE, !.connectP = "fulfilled"]
    ELSE [a EXCEPT !.connectP = "rejected"]

\* the state disconnect() leaves once the driver closed
Closed(a) ==
    [a EXCEPT !.sql = FALSE, !.pool = FALSE, !.connected = FALSE,
              !.disconnectP = "fulfilled"]

\* disconnect() up to its first await
DisconnectCall(a) ==
    IF a.pool THEN [a EXCEPT !.disconnectP = "pending"]
    ELSE IF a.provider = "neondb" THEN Closed(a)
    ELSE IF a.provider = "supabase" /\ a.sql THEN Closed(a)
    ELSE [a EXCEPT !.disconnectP = "fulfilled"]

\* disconnect() after pool.end() settled
DisconnectResume(a, ok) ==
    IF ok THEN Closed(a) ELSE [a EXCEPT !.disconnectP = "rejected"]

isConnected(a) ==
    IF a.provider \in ClientKinds THEN a.connected /\ a.sql ELSE a.connected /\ a.pool

\* getClient(): the native handle, or the error thrown when it is unset
getClient(a) ==
    IF (IF a.provider \in ClientKinds THEN a.sql ELSE a.pool)
    THEN [ok |-> TRUE, error |-> "none"]
    ELSE [ok |-> FALSE, error |-> "not initialized"]

\* ---- DatabaseManager.initialize ------------------------------------------
\* what the loop body does with one entry of config.providers
EntryOutcome(e) ==
    IF e.settings = "none" THEN "skipped"
    ELSE IF e.id \notin KnownProviders THEN "unknown"
    ELSE IF ConstructorThrows(e.id, e.settings) THEN "rejected"
    ELSE "constructed"

\* a loop body that calls connect() a second time on the adapter
LoopBodyConnectTwice(e, st) ==
    IF EntryOutcome(e) = "constructed"
    THEN LET id == Len(st.inst) + 1
             a == ConnectCall(NewAdapter(e.id, e.settings))
         IN  [st EXCEPT !.adapters = MapSet(st.adapters, e.id, id),
                        !.inst = Append(st.inst, a),
                        !.promises = st.promises \cup {id},
                        !.connects = st.connects + 2]
    ELSE IF EntryOutcome(e) \in {"unknown", "rejected"}
    THEN [st EXCEPT !.skipped = st.skipped \cup {e.id}]
    ELSE st

\* one pass of the loop body: st = [adapters, inst, promises, connects, skipped]
LoopBody(e, st) ==
    IF EntryOutcome(e) = "constructed"
    THEN LET id == Len(st.inst) + 1
             a == ConnectCall(NewAdapter(e.id, e.settings))
         IN  [st EXCEPT !.adapters = MapSet(st.adapters, e.id, id),
                        !.inst = Append(st.inst, a),
                        !.promises = st.promises \cup {id},
                        !.connects = st.connects + 1]
    ELSE IF EntryOutcome(e) \in {"unknown", "rejected"}
    THEN [st EXCEPT !.skipped = st.skipped \cup {e.id}]
    ELSE st

\* a loop that gives up at the first entry it cannot construct
RECURSIVE InitLoopBreak(_, _, _)
InitLoopBreak(es, k, st) ==
    IF k > Len(es) THEN st
    ELSE IF EntryOutcome(es[k]) = "constructed"
         THEN InitLoopBreak(es, k + 1, LoopBody(es[k], st))
         ELSE LoopBody(es[k], st)

\* the for loop over Object.entries(config.providers), from entry k on
RECURSIVE InitLoop(_, _, _)
InitLoop(es, k, st) ==
    IF k > Len(es) THEN st
    ELSE InitLoop(es, k + 1, LoopBody(es[k], st))

Constructed(cfg) ==
    {k \in 1..Len(cfg.providers) : EntryOutcome(cfg.providers[k]) = "constructed"}

\* the lowest free frame
FreeCall(c) == calls[c].pc = "idle" /\ \A d \in CallIds : d < c => calls[d].pc # "idle"

Done(op, outcome) == [NoCall EXCEPT !.op = op, !.outcome = outcome]

\* the guard of initialize(): a warning and an early return
AlreadyInitializedNever == FALSE
AlreadyInitialized == initialized

InitializeStart(c, cfg) ==
    /\ FreeCall(c)
    /\ IF AlreadyInitialized
       THEN /\ last' = Done("initialize", "already initialized")
            /\ UNCHANGED <<adapters, defaultProvider, initialized, inst, calls, disc>>
            /\ UNCHANGED <<txVars, auxVars, restVars, health>>
       ELSE IF ~cfg.hasProviders
       THEN /\ last' = Done("initialize", "no providers")
            /\ UNCHANGED <<adapters, defaultProvider, initialized, inst, calls, disc>>
            /\ UNCHANGED <<txVars, auxVars, restVars, health>>
       ELSE /\ Len(inst) + Cardinality(Constructed(cfg)) <= MaxInst
            /\ LET st == InitLoop(cfg.providers, 1,
                                  [adapters |-> adapters, inst |-> inst,
                                   promises |-> {}, connects |-> 0,
                                   skipped |-> {}])
               IN  /\ adapters' = st.adapters
                   /\ inst' = st.inst
                   /\ calls' = [calls EXCEPT ![c] =
                                   [pc |-> "awaiting", config |-> cfg,
                                    promises |-> st.promises,
                                    connects |-> st.connects,
                                    skipped |-> st.skipped]]
            /\ defaultProvider' = cfg.default
            /\ UNCHANGED <<initialized, disc, last, txVars, auxVars, restVars, health>>

\* a connect() promise settles
ConnectSettle(i, ok) ==
    /\ i \in 1..Len(inst)
    /\ inst[i].connectP = "pending"
    /\ inst' = [inst EXCEPT ![i] = ConnectResume(inst[i], ok)]
    /\ UNCHANGED <<adapters, defaultProvider, initialized, calls, disc, last, txVars, auxVars, restVars, health>>

\* Promise.all: settles as soon as one promise rejected
AllOrFirstRejected(ps) ==
    \/ \A i \in ps : inst[i].connectP # "pending"
    \/ \E i \in ps : inst[i].connectP = "rejected"

\* Promise.allSettled: fulfilled once no promise is pending any more
AllSettled(ps) == \A i \in ps : inst[i].connectP # "pending"

\* initialized only when some connect() was fulfilled
InitializedIfConnected(ps) == \E i \in ps : inst[i].connectP = "fulfilled"

\* this.initialized = true, whatever the promises settled to
InitializedAfter(ps) == TRUE

InitializeReturn(c) ==
    /\ calls[c].pc = "awaiting"
    /\ AllSettled(calls[c].promises)
    /\ initialized' = InitializedAfter(calls[c].promises)
    /\ calls' = [calls EXCEPT ![c] = IdleCall]
    /\ last' = [Done("initialize", "returned") EXCEPT !.skipped = calls[c].skipped]
    /\ UNCHANGED <<adapters, defaultProvider, inst, disc, txVars, auxVars, restVars, health>>

\* ---- DatabaseManager.disconnect ------------------------------------------
InMap(i) == \E k \in 1..Len(adapters) : adapters[k].inst = i

DisconnectStart ==
    /\ disc.pc = "idle"
    /\ inst' = [i \in 1..Len(inst) |-> IF InMap(i) THEN DisconnectCall(inst[i]) ELSE inst[i]]
    /\ disc' = [pc |-> "awaiting", promises |-> {i \in 1..Len(inst) : InMap(i)}]
    /\ UNCHANGED <<adapters, defaultProvider, initialized, calls, last, txVars, auxVars, restVars, health>>

\* pool.end() settles; a rejection is caught and logged by the manager
DisconnectSettle(i, ok) ==
    /\ i \in 1..Len(inst)
    /\ inst[i].disconnectP = "pending"
    /\ inst' = [inst EXCEPT ![i] = DisconnectResume(inst[i], ok)]
    /\ UNCHANGED <<adapters, defaultProvider, initialized, calls, disc, last, txVars, auxVars, restVars, health>>

\* Promise.all over the bare disconnect() promises: rejects with the first
\* rejection
JoinedOrFirstRejected(ps) ==
    \/ \A i \in ps : inst[i].disconnectP # "pending"
    \/ \E i \in ps : inst[i].disconnectP = "rejected"

\* Promise.all over the promises that carry .catch: every one of them
\* fulfils, so the await ends when none is pending any more
DisconnectJoined(ps) == \A i \in ps : inst[i].disconnectP # "pending"

\* a rejection that reaches the caller of disconnect()
DisconnectRaises(ps) == \E i \in ps : inst[i].disconnectP = "rejected"

\* whether the await in disconnect() throws: .catch has logged and
\* swallowed every rejection
DisconnectThrows(ps) == FALSE

DisconnectReturn ==
    /\ disc.pc = "awaiting"
    /\ DisconnectJoined(disc.promises)
    /\ IF DisconnectThrows(disc.promises)
       THEN /\ last' = Done("disconnect", "threw")
            /\ UNCHANGED <<adapters, initialized>>
       ELSE /\ adapters' = <<>>
            /\ initialized' = FALSE
            /\ last' = Done("disconnect", "returned")
    /\ disc' = IdleDisc
    /\ UNCHANGED <<defaultProvider, inst, calls, txVars, auxVars, restVars, health>>

\* ---- DatabaseManager.healthCheck ------------------------------------------
\* an adapter's healthCheck(): false without a handle, else whether the
\* round trip to the backend came back
AdapterHealth(a, ok) ==
    IF a.provider \in ClientKinds THEN a.sql /\ ok ELSE a.pool /\ ok

\* healthCheck() up to its first await: the loop calls the first adapter
HealthStart ==
    /\ health.pc # "awaiting"
    /\ IF Len(adapters) = 0
       THEN health' = [pc |-> "done", pos |-> 0, results |-> <<>>]
       ELSE health' = [pc |-> "awaiting", pos |-> 1, results |-> <<>>]
    /\ UNCHANGED <<adapters, defaultProvider, initialized, inst, calls, disc, last, txVars, auxVars, restVars>>

\* the awaited adapter healthCheck() settles: its value is stored and the
\* loop calls the next adapter, or healthCheck() returns
HealthSettle(ok) ==
    /\ health.pc = "awaiting"
    /\ health.pos <= Len(adapters)
    /\ LET e == adapters[health.pos]
           results == Append(health.results,
                             [key |-> e.key, value |-> AdapterHealth(inst[e.inst], ok)])
       IN  health' = IF health.pos < Len(adapters)
                     THEN [pc |-> "awaiting", pos |-> health.pos + 1, results |-> results]
                     ELSE [pc |-> "done", pos |-> 0, results |-> results]
    /\ UNCHANGED <<adapters, defaultProvider, initialized, inst, calls, disc, last, txVars, auxVars, restVars>>

\* ---- lookups -------------------------------------------------------------
\* a has() that answers for connected adapters only
hasConnected(name) ==
    MapHas(adapters, name) /\ isConnected(inst[MapGet(adapters, name)])

has(name) == MapHas(adapters, name)

providers == Keys(adapters)

\* get(name): the adapter, or the error with the keys of the map
get(name) ==
    IF MapHas(adapters, name)
    THEN [NoAnswer EXCEPT !.adapter = MapGet(adapters, name)]
    ELSE [NoAnswer EXCEPT !.ok = FALSE, !.error = "not found", !.name = name,
                          !.available = Keys(adapters)]

\* default(): the configured default through get, else the first adapter
default ==
    IF defaultProvider = Null
    THEN IF Len(adapters) = 0
         THEN [NoAnswer EXCEPT !.ok = FALSE, !.error = "No database adapters available"]
         ELSE [NoAnswer EXCEPT !.adapter = adapters[1].inst]
    ELSE get(defaultProvider)

\* the lookups as calls: has, providers, get, default and the shorthands
\* postgresql(), neondb(), ..., which are get of their own name
LookupOps == {"has", "providers", "get", "default", "shorthand"}

\* what the caller of the lookup gets
LookupOutcome(op, name) ==
    IF op = "has" THEN (IF has(name) THEN "true" ELSE "false")
    ELSE IF op = "providers" THEN "returned"
    ELSE IF op = "default" THEN (IF default.ok THEN "returned" ELSE default.error)
    ELSE IF get(name).ok THEN "returned" ELSE get(name).error

\* a get that hands the adapter over and forgets it
MapTake(m, op, name) ==
    IF op \in {"get", "shorthand"} /\ MapHas(m, name)
    THEN SelectSeq(m, LAMBDA e : e.key # name)
    ELSE m

\* the map after a lookup: Map.get, Map.has, keys() and values() write nothing
MapAfterLookup(m, op, name) == m

Lookup(op, name) ==
    /\ op \in LookupOps
    /\ op \in {"providers", "default"} => name = Null
    /\ op = "shorthand" => name \in KnownProviders
    /\ op \in {"has", "get"} => name # Null
    /\ last' = Done(op, LookupOutcome(op, name))
    /\ adapters' = MapAfterLookup(adapters, op, name)
    /\ UNCHANGED <<defaultProvider, initialized, inst, calls, disc, txVars, auxVars, restVars, health>>

\* ---- SQL adapters: transaction -------------------------------------------------
SQLKinds == {"postgresql", "mysql", "neondb"}
TxIds == 1..MaxTx
\* the pool hands every transaction a connection of its own
ConnIds == 1..MaxTx

\* body: where the callback stands; err: the error the catch block holds;
\* issued: the statements sent on the acquired connection; writes: the
\* number of writes the callback made through its handle
IdleTx == [pc |-> "idle", inst |-> 0, conn |-> 0, body |-> "not run", err |-> "none",
           issued |-> <<>>, writes |-> 0, outcome |-> "none", value |-> "none",
           released |-> 0]
\* inTx: the server has an open transaction on the connection; pending: its
\* uncommitted writes
IdleConn == [busy |-> FALSE, inTx |-> FALSE, pending |-> {}]

\* the guard of transaction(): the message it throws, or "none"
TxGuard(a) ==
    IF a.pool THEN "none"
    ELSE IF a.provider = "neondb" THEN "Transactions require pooled connection"
    ELSE "not connected"

\* what the callback is handed: the acquired client, or the pool itself
TxHandle(a) == IF a.provider = "neondb" THEN "pool" ELSE "client"

\* the guard of query() and execute(): the message it throws, or "none" when
\* the statement goes to the driver
QueryGuard(a) ==
    IF a.provider = "neondb"
    THEN IF a.sql THEN "none" ELSE "not connected"
    ELSE IF a.pool THEN "none" ELSE "not connected"

\* a transaction() that releases at the end of the try block only
FinishReleaseOnReturn(f, outcome, value) ==
    [f EXCEPT !.pc = "done", !.outcome = outcome, !.value = value,
              !.released = IF outcome = "returned" THEN f.released + 1 ELSE f.released]

\* return or throw out of transaction(); the finally block releases
Finish(f, outcome, value) ==
    [f EXCEPT !.pc = "done", !.outcome = outcome, !.value = value,
              !.released = f.released + 1]

\* transaction() up to pool.connect()
TxStart(t, i) ==
    /\ txs[t].pc = "idle"
    /\ i \in 1..Len(inst)
    /\ IF TxGuard(inst[i]) # "none"
       THEN txs' = [txs EXCEPT ![t] = [IdleTx EXCEPT !.pc = "done", !.inst = i,
                                                      !.outcome = "threw",
                                                      !.value = TxGuard(inst[i])]]
       ELSE txs' = [txs EXCEPT ![t] = [IdleTx EXCEPT !.pc = "acquire", !.inst = i]]
    /\ UNCHANGED <<adapters, defaultProvider, initialized, inst, calls, disc, last, health, auxVars, restVars,
                   conns, committed>>

\* pool.connect() settles; on success BEGIN is sent
TxAcquire(t, n, ok) ==
    /\ txs[t].pc = "acquire"
    /\ IF ok
       THEN /\ ~conns[n].busy
            /\ conns' = [conns EXCEPT ![n].busy = TRUE]
            /\ txs' = [txs EXCEPT ![t].pc = "begin", ![t].conn = n,
                                  ![t].issued = <<"BEGIN">>]
       ELSE /\ n = 1
            /\ txs' = [txs EXCEPT ![t].pc = "done", ![t].outcome = "threw",
                                  ![t].value = "acquire failed"]
            /\ UNCHANGED conns
    /\ UNCHANGED <<adapters, defaultProvider, initialized, inst, calls, disc, last, health, auxVars, restVars,
                   committed>>

\* a catch block that rethrows without sending ROLLBACK
CaughtNoRollback(f, e) == [f EXCEPT !.pc = "rollback", !.err = e]

\* the catch block: ROLLBACK is sent, the caught error is kept
Caught(f, e) == [f EXCEPT !.pc = "rollback", !.err = e,
                          !.issued = Append(f.issued, "ROLLBACK")]

\* BEGIN settles; on success the callback is invoked
TxBegin(t, ok) ==
    /\ txs[t].pc = "begin"
    /\ IF ok
       THEN /\ conns' = [conns EXCEPT ![txs[t].conn].inTx = TRUE]
            /\ txs' = [txs EXCEPT ![t].pc = "body", ![t].body = "running"]
       ELSE /\ txs' = [txs EXCEPT ![t] = Caught(txs[t], "begin failed")]
            /\ UNCHANGED conns
    /\ UNCHANGED <<adapters, defaultProvider, initialized, inst, calls, disc, last, health, auxVars, restVars,
                   committed>>

\* the callback writes a row through the handle it was given: on the
\* acquired client the write joins its open transaction, through the pool
\* it runs on another connection and commits at once
TxWrite(t) ==
    /\ txs[t].pc = "body"
    /\ txs[t].writes < MaxWrites
    /\ LET w == <<t, txs[t].writes + 1>>
       IN  IF TxHandle(inst[txs[t].inst]) = "client"
           THEN /\ conns' = [conns EXCEPT ![txs[t].conn].pending = @ \cup {w}]
                /\ UNCHANGED committed
           ELSE /\ committed' = committed \cup {w}
                /\ UNCHANGED conns
    /\ txs' = [txs EXCEPT ![t].writes = @ + 1]
    /\ UNCHANGED <<adapters, defaultProvider, initialized, inst, calls, disc, last, health, auxVars, restVars>>

\* the callback settles: COMMIT is sent after a normal return, the catch
\* block runs after a throw
TxBodyEnd(t, throws) ==
    /\ txs[t].pc = "body"
    /\ IF throws
       THEN txs' = [txs EXCEPT ![t] = [Caught(txs[t], "E") EXCEPT !.body = "threw"]]
       ELSE txs' = [txs EXCEPT ![t].pc = "commit", ![t].body = "returned",
                               ![t].issued = Append(@, "COMMIT")]
    /\ UNCHANGED <<adapters, defaultProvider, initialized, inst, calls, disc, last, health, auxVars, restVars,
                   conns, committed>>

\* COMMIT settles: the result is returned, or the catch block runs
TxCommit(t, ok) ==
    /\ txs[t].pc = "commit"
    /\ IF ok
       THEN /\ committed' = committed \cup conns[txs[t].conn].pending
            /\ conns' = [conns EXCEPT ![txs[t].conn] = IdleConn]
            /\ txs' = [txs EXCEPT ![t] = Finish(txs[t], "returned", "result")]
       ELSE /\ txs' = [txs EXCEPT ![t] = Caught(txs[t], "commit failed")]
            /\ UNCHANGED <<conns, committed>>
    /\ UNCHANGED <<adapters, defaultProvider, initialized, inst, calls, disc, last, health, auxVars, restVars>>

\* what leaves the catch block: the caught error after a successful
\* ROLLBACK, the error of the awaited ROLLBACK when it fails
RollbackThrows(f, ok) == IF ok THEN f.err ELSE "rollback failed"

\* ROLLBACK settles; the connection is released in either case
TxRollback(t, ok) ==
    /\ txs[t].pc = "rollback"
    /\ conns' = [conns EXCEPT ![txs[t].conn] =
                    IF ok THEN IdleConn ELSE [@ EXCEPT !.busy = FALSE]]
    /\ txs' = [txs EXCEPT ![t] = Finish(txs[t], "threw", RollbackThrows(txs[t], ok))]
    /\ UNCHANGED <<adapters, defaultProvider, initialized, inst, calls, disc, last, health, auxVars, restVars,
                   committed>>

\* connect() called on an adapter directly
AdapterConnect(i) ==
    /\ i \in 1..Len(inst)
    /\ inst[i].connectP # "pending"
    /\ inst' = [inst EXCEPT ![i] = ConnectCall(inst[i])]
    /\ UNCHANGED <<adapters, defaultProvider, initialized, calls, disc, last, txVars, auxVars, restVars, health>>

\* disconnect() called on an adapter directly
AdapterDisconnect(i) ==
    /\ i \in 1..Len(inst)
    /\ inst[i].disconnectP # "pending"
    /\ inst' = [inst EXCEPT ![i] = DisconnectCall(inst[i])]
    /\ UNCHANGED <<adapters, defaultProvider, initialized, calls, disc, last, txVars, auxVars, restVars, health>>

\* ---- adapter operations other than connect and disconnect --------------------
\* how a round trip to the backend can end: the SQL drivers reject their
\* promise on failure, the Supabase client resolves with an error result
RoundTrips(p) == IF p = "supabase" THEN {"ok", "threw", "error"} ELSE {"ok", "threw"}

\* healthCheck(): false without a handle or when the awaited round trip
\* throws, true when the await comes back, whatever it resolved to
healthCheck(a, rt) == getClient(a).ok /\ rt # "threw"

\* the operations an adapter of this kind has
OpsOf(p) ==
    IF p = "supabase" THEN {"isConnected", "getClient", "healthCheck"}
    ELSE {"isConnected", "getClient", "healthCheck", "query", "execute"}

\* what the caller of the operation gets: a value, or the error thrown
OpOutcome(a, op, rt) ==
    IF op = "isConnected" THEN (IF isConnected(a) THEN "true" ELSE "false")
    ELSE IF op = "getClient"
         THEN (IF getClient(a).ok THEN "returned" ELSE getClient(a).error)
    ELSE IF op = "healthCheck" THEN (IF healthCheck(a, rt) THEN "true" ELSE "false")
    ELSE IF QueryGuard(a) # "none" THEN QueryGuard(a)
    ELSE IF rt = "ok" THEN "returned" ELSE "threw"

\* an operation that gives up its handle when the backend failed
DropHandleOnFailure(a, op, out) ==
    IF out \in {"threw", "false"}
    THEN [a EXCEPT !.sql = FALSE, !.pool = FALSE, !.connected = FALSE]
    ELSE a

\* the adapter after the operation: none of them assigns a field
AfterOperation(a, op, out) == a

\* whether the operation reaches the driver: it has a round trip and its
\* guard lets it pass
Sent(a, op) ==
    \/ op = "healthCheck" /\ getClient(a).ok
    \/ op \in {"query", "execute"} /\ QueryGuard(a) = "none"

\* one of these operations called on an adapter, to its completion
AdapterOp(i, op, rt) ==
    /\ i \in 1..Len(inst)
    /\ op \in OpsOf(inst[i].provider)
    /\ rt \in RoundTrips(inst[i].provider)
    /\ LET out == OpOutcome(inst[i], op, rt)
       IN  /\ inst' = [inst EXCEPT ![i] = AfterOperation(inst[i], op, out)]
           /\ last' = [Done(op, out) EXCEPT
                          !.trip = IF Sent(inst[i], op) THEN rt ELSE "none"]
    /\ UNCHANGED <<adapters, defaultProvider, initialized, calls, disc, txVars, auxVars, restVars, health>>

\* ---- disconnect() calls that overlap ------------------------------------------
CloserIds == 1..MaxClosers

\* kind: "adapter" for a direct adapter.disconnect(), "shutdown" for the
\* signal handler; p: the adapter disconnect() promises the caller awaits;
\* ended: the instances whose pool.end() this caller called; nth: which
\* disconnect() call on its instance a direct call is, failed calls apart
IdleCloser == [pc |-> "idle", kind |-> "none", p |-> <<>>, ended |-> {},
               nth |-> 0, outcome |-> "none"]

\* the disconnect() calls made on instance i so far that have not failed
CallsOn(i) ==
    {d \in CloserIds : /\ closers[d].kind = "adapter"
                       /\ i \in DOMAIN closers[d].p
                       /\ closers[d].outcome # "threw"}

\* the promise adapter.disconnect() hands back at its first await: pending
\* while pool.end() runs, fulfilled when there was no pool to end
CloseP(a) == IF a.pool THEN "pending" ELSE "fulfilled"

\* adapter.disconnect() called directly; the call of an adapter without a
\* pool returns in the same step
AdapterClose(d, i) ==
    /\ ~exited
    /\ closers[d].pc = "idle"
    /\ i \in 1..Len(inst)
    /\ inst' = [inst EXCEPT ![i] = DisconnectCall(inst[i])]
    /\ closers' = [closers EXCEPT ![d] =
          [pc |-> IF inst[i].pool THEN "awaiting" ELSE "done",
           kind |-> "adapter",
           p |-> [j \in {i} |-> CloseP(inst[i])],
           ended |-> IF inst[i].pool THEN {i} ELSE {},
           nth |-> Cardinality(CallsOn(i)) + 1,
           outcome |-> IF inst[i].pool THEN "none" ELSE "returned"]]
    /\ UNCHANGED <<adapters, defaultProvider, initialized, calls, disc, last, txVars,
                   health, exited, docVars, restVars>>

\* the pool.end() of one caller settles: its disconnect() clears the fields
\* or throws; a direct call ends here, the manager catches and logs
CloseSettle(d, i, ok) ==
    /\ ~exited
    /\ closers[d].pc = "awaiting"
    /\ i \in DOMAIN closers[d].p
    /\ closers[d].p[i] = "pending"
    /\ inst' = [inst EXCEPT ![i] = DisconnectResume(inst[i], ok)]
    /\ closers' = [closers EXCEPT ![d] =
          IF closers[d].kind = "adapter"
          THEN [@ EXCEPT !.pc = "done", !.p[i] = IF ok THEN "fulfilled" ELSE "rejected",
                         !.outcome = IF ok THEN "returned" ELSE "threw"]
          ELSE [@ EXCEPT !.p[i] = IF ok THEN "fulfilled" ELSE "rejected"]]
    /\ UNCHANGED <<adapters, defaultProvider, initialized, calls, disc, last, txVars,
                   health, exited, docVars, restVars>>

\* ---- graceful shutdown --------------------------------------------------------
\* the handlers are registered once initialize() has returned
HandlersRegistered == last.op = "initialize"

\* a signal arrives: the handler calls db.disconnect(), which calls
\* disconnect() on every adapter of the Map and awaits them all
ShutdownStart(d) ==
    /\ ~exited
    /\ HandlersRegistered
    /\ closers[d].pc = "idle"
    /\ LET ps == {i \in 1..Len(inst) : InMap(i)}
       IN  /\ inst' = [i \in 1..Len(inst) |->
                         IF i \in ps THEN DisconnectCall(inst[i]) ELSE inst[i]]
           /\ closers' = [closers EXCEPT ![d] =
                 [pc |-> "awaiting", kind |-> "shutdown",
                  p |-> [i \in ps |-> CloseP(inst[i])],
                  ended |-> {i \in ps : inst[i].pool},
                  nth |-> 0, outcome |-> "none"]]
    /\ UNCHANGED <<adapters, defaultProvider, initialized, calls, disc, last, txVars,
                   health, exited, docVars, restVars>>

\* db.disconnect() returns to the handler once each of its promises
\* settled; the handler then calls process.exit(0)
ShutdownExit(d) ==
    /\ ~exited
    /\ closers[d].pc = "awaiting"
    /\ closers[d].kind = "shutdown"
    /\ \A i \in DOMAIN closers[d].p : closers[d].p[i] # "pending"
    /\ adapters' = <<>>
    /\ initialized' = FALSE
    /\ last' = Done("disconnect", "returned")
    /\ closers' = [closers EXCEPT ![d].pc = "done", ![d].outcome = "exited"]
    /\ exited' = TRUE
    /\ UNCHANGED <<defaultProvider, inst, calls, disc, txVars, health, docVars, restVars>>

\* ---- document collections ---------------------------------------------------
DocIds == 1..MaxDocs
FieldValues == {"a", "b"}
\* a filter is {field: v}, or {} which every document matches
Filters == FieldValues \cup {"all"}
DocOps == {"updateOne", "updateMany", "deleteOne", "deleteMany"}
DocKinds == {"firestore", "mongodb"}

\* before: the collection when the operation was called; found: what find()
\* returned; trip: how the last round trip to the backend ended
IdleDop == [pc |-> "idle", kind |-> "none", op |-> "none", filter |-> "all",
            update |-> "a", found |-> {}, before |-> <<>>, count |-> 0,
            outcome |-> "none", trip |-> "none"]

\* the documents a filter selects
Matching(ds, f) == {k \in DOMAIN ds : ds[k] # "absent" /\ (f = "all" \/ ds[k] = f)}
Lowest(S) == CHOOSE k \in S : \A j \in S : k <= j
\* the documents an operation acts on: the first match, or every match
Targets(op, found) ==
    IF found = {} THEN {}
    ELSE IF op \in {"updateOne", "deleteOne"} THEN {Lowest(found)} ELSE found
\* the collection after the write
Written(ds, op, ts, u) ==
    [k \in DOMAIN ds |->
        IF k \in ts THEN (IF op \in {"updateOne", "updateMany"} THEN u ELSE "absent")
        ELSE ds[k]]

\* an updateOne/deleteOne that goes on to docs[0] of an empty result
FirestoreFoundUnchecked(f, found) ==
    IF found = {} /\ f.op \in {"updateOne", "deleteOne"}
    THEN [f EXCEPT !.pc = "done", !.outcome = "threw"]
    ELSE [f EXCEPT !.pc = "found", !.found = found]

\* Firestore wrapper after find(): zero is returned for an empty result,
\* else the write is sent
FirestoreFound(f, found) ==
    IF found = {}
    THEN [f EXCEPT !.pc = "done", !.outcome = "returned", !.count = 0]
    ELSE [f EXCEPT !.pc = "found", !.found = found]

\* the count the MongoDB driver reports: documents modified by $set, or
\* documents deleted
DriverCount(ds, op, ts, u) ==
    IF op \in {"updateOne", "updateMany"}
    THEN Cardinality({k \in ts : ds[k] # u})
    ELSE Cardinality(ts)

\* an operation is called on a collection: the Firestore wrapper awaits
\* find(), the MongoDB wrapper awaits the driver's operation
DocOpStart(kind, op, f, u, ok) ==
    /\ dop.pc # "found"
    /\ LET fr == [IdleDop EXCEPT !.kind = kind, !.op = op, !.filter = f, !.update = u,
                                 !.before = docs,
                                 !.trip = IF ok THEN "ok" ELSE "failed"]
           ts == Targets(op, Matching(docs, f))
       IN  IF ~ok
           THEN /\ dop' = [fr EXCEPT !.pc = "done", !.outcome = "threw"]
                /\ UNCHANGED docs
           ELSE IF kind = "firestore"
           THEN /\ dop' = FirestoreFound(fr, Matching(docs, f))
                /\ UNCHANGED docs
           ELSE /\ dop' = [fr EXCEPT !.pc = "done", !.outcome = "returned",
                                     !.found = Matching(docs, f),
                                     !.count = DriverCount(docs, op, ts, u)]
                /\ docs' = Written(docs, op, ts, u)
    /\ UNCHANGED <<adapters, defaultProvider, initialized, inst, calls, disc, last, txVars,
                   health, closeVars, restVars>>

\* Firestore rejects update() of a document that does not exist (a batch
\* fails as a whole); delete() of such a document succeeds
WriteRejected(ds, op, ts) ==
    op \in {"updateOne", "updateMany"} /\ \E k \in ts : ds[k] = "absent"

\* another client of the backend writes or deletes a document
OtherWriter(k, v) ==
    /\ docs[k] # v
    /\ docs' = [docs EXCEPT ![k] = v]
    /\ UNCHANGED <<adapters, defaultProvider, initialized, inst, calls, disc, last, txVars,
                   health, closeVars, dop, restVars>>

\* the Firestore write settles: doc(id).update/delete, or batch.commit()
DocWrite(ok) ==
    /\ dop.pc = "found"
    /\ LET ts == Targets(dop.op, dop.found)
       IN  IF ok /\ WriteRejected(docs, dop.op, ts)
           THEN /\ dop' = [dop EXCEPT !.pc = "done", !.outcome = "threw"]
                /\ UNCHANGED docs
           ELSE IF ok
           THEN /\ docs' = Written(docs, dop.op, ts, dop.update)
                /\ dop' = [dop EXCEPT !.pc = "done", !.outcome = "returned",
                                      !.count = Cardinality(ts)]
           ELSE /\ dop' = [dop EXCEPT !.pc = "done", !.outcome = "threw",
                                      !.trip = "failed"]
                /\ UNCHANGED docs
    /\ UNCHANGED <<adapters, defaultProvider, initialized, inst, calls, disc, last, txVars,
                   health, closeVars, restVars>>

\* ---- MemoryCache ---------------------------------------------------------------
CacheKeys == {"k1", "k2"}
\* the clock advances in steps of half a second
TickMs == 500
\* the constructor's defaultTTL, in seconds
DefaultTTL == 2
\* the ttl argument left out
NoTTL == -1
TTLs == {NoTTL, 1}

NoEntry == [present |-> FALSE, value |-> 0, expiresAt |-> 0]
\* at: Date.now() at the call; before, after: the entry of the key on
\* either side of it; found: whether a value (has: true) came back
NoCacheCall == [op |-> "none", key |-> "k1", at |-> 0, before |-> NoEntry,
                after |-> NoEntry, found |-> FALSE, value |-> 0]

\* a get() that hands out whatever the store holds
getStale(st, k, t) ==
    [store |-> st, found |-> st[k].present, value |-> st[k].value]

\* get(): undefined for a missing key; an expired entry is deleted
get_(st, k, t) ==
    IF ~st[k].present THEN [store |-> st, found |-> FALSE, value |-> 0]
    ELSE IF t > st[k].expiresAt
    THEN [store |-> [st EXCEPT ![k] = NoEntry], found |-> FALSE, value |-> 0]
    ELSE [store |-> st, found |-> TRUE, value |-> st[k].value]

\* set(): expiresAt = Date.now() + (ttl ?? defaultTTL) * 1000
set_(st, k, v, ttl, t) ==
    [st EXCEPT ![k] = [present |-> TRUE, value |-> v,
                       expiresAt |-> t + (IF ttl = NoTTL THEN DefaultTTL ELSE ttl) * 1000]]

\* has(): get(key) !== undefined
has_(st, k, t) == get_(st, k, t)

\* increment(): the value through get() || 0, then set() with the whole
\* seconds the entry has left, or with the default when that is not positive
increment(st, k, amount, t) ==
    LET g == get_(st, k, t)
        current == IF g.found THEN g.value ELSE 0
        newValue == current + amount
        entry == g.store[k]
        remainingTTL == (entry.expiresAt - t) \div 1000
    IN  [store |-> IF entry.present
                   THEN set_(g.store, k, newValue,
                             IF remainingTTL > 0 THEN remainingTTL ELSE DefaultTTL, t)
                   ELSE set_(g.store, k, newValue, NoTTL, t),
         found |-> TRUE, value |-> newValue]

CacheCall(op, k, r) ==
    [op |-> op, key |-> k, at |-> now, before |-> store[k], after |-> r.store[k],
     found |-> r.found, value |-> r.value]

CacheSet(k, v, ttl) ==
    /\ store' = set_(store, k, v, ttl, now)
    /\ cres' = CacheCall("set", k, [store |-> store', found |-> FALSE, value |-> 0])
    /\ UNCHANGED <<adapters, defaultProvider, initialized, inst, calls, disc, last, txVars,
                   health, auxVars, now, inv, sqlcall>>

CacheGet(k) ==
    /\ store' = get_(store, k, now).store
    /\ cres' = CacheCall("get", k, get_(store, k, now))
    /\ UNCHANGED <<adapters, defaultProvider, initialized, inst, calls, disc, last, txVars,
                   health, auxVars, now, inv, sqlcall>>

CacheHas(k) ==
    /\ store' = has_(store, k, now).store
    /\ cres' = CacheCall("has", k, has_(store, k, now))
    /\ UNCHANGED <<adapters, defaultProvider, initialized, inst, calls, disc, last, txVars,
                   health, auxVars, now, inv, sqlcall>>

\* delete(): whether the store held the key
CacheDelete(k) ==
    /\ store' = [store EXCEPT ![k] = NoEntry]
    /\ cres' = CacheCall("delete", k,
                         [store |-> store', found |-> store[k].present, value |-> 0])
    /\ UNCHANGED <<adapters, defaultProvider, initialized, inst, calls, disc, last, txVars,
                   health, auxVars, now, inv, sqlcall>>

CacheIncrement(k, amount) ==
    /\ increment(store, k, amount, now).value <= MaxValue
    /\ store' = increment(store, k, amount, now).store
    /\ cres' = CacheCall("increment", k, increment(store, k, amount, now))
    /\ UNCHANGED <<adapters, defaultProvider, initialized, inst, calls, disc, last, txVars,
                   health, auxVars, now, inv, sqlcall>>

\* time passes
Tick ==
    /\ now < MaxTicks * TickMs
    /\ now' = now + TickMs
    /\ UNCHANGED <<adapters, defaultProvider, initialized, inst, calls, disc, last, txVars,
                   health, auxVars, store, cres, inv, sqlcall>>

\* the cleanup interval fires: expired entries are deleted
Cleanup ==
    /\ \E k \in CacheKeys : store[k].present /\ now > store[k].expiresAt
    /\ store' = [k \in CacheKeys |->
                    IF store[k].present /\ now > store[k].expiresAt THEN NoEntry
                    ELSE store[k]]
    /\ UNCHANGED <<adapters, defaultProvider, initialized, inst, calls, disc, last, txVars,
                   health, auxVars, now, cres, inv, sqlcall>>

\* ---- cachePatterns.invalidateOnWrite ------------------------------------------
WriteResults == {"r1", "r2"}
\* keys: the keys to delete; resolved: what writeFn resolved with; result:
\* what the caller received
IdleInv == [pc |-> "idle", keys |-> {}, resolved |-> "none", result |-> "none",
            outcome |-> "none"]

\* an invalidation that deletes before it calls writeFn
DeletedAtCall(st, keys) == [k \in CacheKeys |-> IF k \in keys THEN NoEntry ELSE st[k]]

\* the store when invalidateOnWrite() has called writeFn and returned its
\* promise: nothing was deleted yet
StoreAtCall(st, keys) == st

\* invalidateOnWrite(keys, writeFn) up to the promise of writeFn()
InvalidateStart(keys) ==
    /\ inv.pc # "awaiting"
    /\ inv' = [IdleInv EXCEPT !.pc = "awaiting", !.keys = keys]
    /\ store' = StoreAtCall(store, keys)
    /\ UNCHANGED <<adapters, defaultProvider, initialized, inst, calls, disc, last, txVars,
                   health, auxVars, now, cres, sqlcall>>

\* writeFn settles: the then-callback deletes the keys and passes the
\* result on; a rejection skips it
InvalidateSettle(ok, r) ==
    /\ inv.pc = "awaiting"
    /\ IF ok
       THEN /\ store' = [k \in CacheKeys |-> IF k \in inv.keys THEN NoEntry ELSE store[k]]
            /\ inv' = [inv EXCEPT !.pc = "done", !.resolved = r, !.result = r,
                                  !.outcome = "returned"]
       ELSE /\ store' = store
            /\ inv' = [inv EXCEPT !.pc = "done", !.outcome = "threw"]
    /\ UNCHANGED <<adapters, defaultProvider, initialized, inst, calls, disc, last, txVars,
                   health, auxVars, now, cres, sqlcall>>

\* ---- SQL adapters: execute and the update helper -------------------------------
\* a statement as the backend sees it: the rows it affects, and whether it
\* carries RETURNING
Statements ==
    [kind : {"INSERT", "UPDATE", "DELETE"}, affected : 0..MaxRows, returning : BOOLEAN]
NoStatement == [kind |-> "INSERT", affected |-> 0, returning |-> FALSE]

\* what the driver hands back: rows holds the returned rows, rowCount and
\* affectedRows the number of rows the statement affected
DriverResult(st) ==
    [rows |-> IF st.returning THEN st.affected ELSE 0,
     rowCount |-> st.affected, affectedRows |-> st.affected]

\* execute(): PostgreSQL result.rowCount || 0, MySQL result.affectedRows,
\* NeonDB the length of the array query() returned
execute(p, res) ==
    IF p = "postgresql" THEN res.rowCount
    ELSE IF p = "mysql" THEN res.affectedRows
    ELSE res.rows

\* the data and where objects: their entries in key order
ColumnNames == {"a", "b", "c"}
ColumnValues == {"x", "y"}
Objects ==
    {o \in UNION {[1..n -> [key : ColumnNames, value : ColumnValues]] : n \in 1..MaxKeys} :
        \A i \in 1..Len(o), j \in 1..Len(o) : i # j => o[i].key # o[j].key}

\* keys.map(key => `${key} = $${paramIndex++}`): the clause entries, and
\* the counter after the last of them
RECURSIVE MapKeys(_, _, _)
MapKeys(o, i, st) ==
    IF i > Len(o) THEN st
    ELSE MapKeys(o, i + 1,
                 [paramIndex |-> st.paramIndex + 1,
                  out |-> Append(st.out, [key |-> o[i].key, ph |-> st.paramIndex])])

ValuesOf(o) == [i \in 1..Len(o) |-> o[i].value]

\* an update() whose clauses each number their placeholders from 1
updateIndexPerClause(data, where) ==
    [set |-> MapKeys(data, 1, [paramIndex |-> 1, out |-> <<>>]).out,
     cond |-> MapKeys(where, 1, [paramIndex |-> 1, out |-> <<>>]).out,
     params |-> ValuesOf(data) \o ValuesOf(where)]

\* update(): the SET clause, the WHERE clause, and params
update(data, where) ==
    LET s1 == MapKeys(data, 1, [paramIndex |-> 1, out |-> <<>>])
        s2 == MapKeys(where, 1, [paramIndex |-> s1.paramIndex, out |-> <<>>])
    IN  [set |-> s1.out, cond |-> s2.out,
         params |-> ValuesOf(data) \o ValuesOf(where)]

NoSqlCall == [fn |-> "none", provider |-> "none", stmt |-> NoStatement,
              affectedRows |-> 0, data |-> <<>>, where |-> <<>>,
              set |-> <<>>, cond |-> <<>>, params |-> <<>>]

\* execute(statement) on a connected adapter whose round trip succeeds
SqlExecute(p, st) ==
    /\ sqlcall' = [NoSqlCall EXCEPT !.fn = "execute", !.provider = p, !.stmt = st,
                                    !.affectedRows = execute(p, DriverResult(st))]
    /\ UNCHANGED <<adapters, defaultProvider, initialized, inst, calls, disc, last, txVars,
                   health, auxVars, cacheVars>>

\* PostgreSQLAdapter.update(table, data, where) up to this.query(sql, params)
SqlUpdate(data, where) ==
    /\ sqlcall' = [NoSqlCall EXCEPT !.fn = "update", !.provider = "postgresql",
                                    !.data = data, !.where = where,
                                    !.set = update(data, where).set,
                                    !.cond = update(data, where).cond,
                                    !.params = update(data, where).params]
    /\ UNCHANGED <<adapters, defaultProvider, initialized, inst, calls, disc, last, txVars,
                   health, auxVars, cacheVars>>

\* ---- specifications --------------------------------------------------------
Init ==
    /\ adapters = <<>>
    /\ defaultProvider = Null
    /\ initialized = FALSE
    /\ inst = <<>>
    /\ calls = [c \in CallIds |-> IdleCall]
    /\ disc = IdleDisc
    /\ last = NoCall
    /\ health = IdleHealth
    /\ txs = [t \in TxIds |-> IdleTx]
    /\ conns = [n \in ConnIds |-> IdleConn]
    /\ committed = {}
    /\ closers = [d \in CloserIds |-> IdleCloser]
    /\ exited = FALSE
    /\ docs = [k \in DocIds |-> "absent"]
    /\ dop = IdleDop
    /\ store = [k \in CacheKeys |-> NoEntry]
    /\ now = 0
    /\ cres = NoCacheCall
    /\ inv = IdleInv
    /\ sqlcall = NoSqlCall

\* no manager call is in flight
Quiet == disc.pc = "idle" /\ \A c \in CallIds : calls[c].pc = "idle"

\* the configs tried on a manager in its current state: an initialized
\* manager returns before it reads its argument, two configs stand for all
FewConfigs ==
    {NoProviders} \cup {cfg \in Configs : cfg.default = Null /\ Len(cfg.providers) = 1}
ConfigsToTry == IF initialized THEN FewConfigs ELSE Configs

\* one manager call at a time: each call is awaited before the next starts
Next ==
    \/ Quiet /\ \E c \in CallIds, cfg \in ConfigsToTry : InitializeStart(c, cfg)
    \/ \E i \in 1..MaxInst, ok \in BOOLEAN : ConnectSettle(i, ok)
    \/ \E c \in CallIds : InitializeReturn(c)
    \/ Quiet /\ DisconnectStart
    \/ \E i \in 1..MaxInst, ok \in BOOLEAN : DisconnectSettle(i, ok)
    \/ DisconnectReturn

Spec == Init /\ [][Next]_vars

\* manager calls may start while others are awaiting
NextConc ==
    \/ \E c \in CallIds, cfg \in ConcConfigs : InitializeStart(c, cfg)
    \/ \E i \in 1..MaxInst, ok \in BOOLEAN : ConnectSettle(i, ok)
    \/ \E c \in CallIds : InitializeReturn(c)
    \/ DisconnectStart
    \/ \E i \in 1..MaxInst, ok \in BOOLEAN : DisconnectSettle(i, ok)
    \/ DisconnectReturn

SpecConc == Init /\ [][NextConc]_vars

\* initialize, healthCheck and disconnect, one manager call at a time, and
\* lookups at any moment outside initialize and disconnect
QuietHealth == Quiet /\ health.pc # "awaiting"

NextHealth ==
    \/ QuietHealth /\ \E c \in CallIds, cfg \in ConcConfigs : InitializeStart(c, cfg)
    \/ \E i \in 1..MaxInst, ok \in BOOLEAN : ConnectSettle(i, ok)
    \/ \E c \in CallIds : InitializeReturn(c)
    \/ QuietHealth /\ HealthStart
    \/ \E ok \in BOOLEAN : HealthSettle(ok)
    \/ Quiet /\ \E op \in LookupOps, name \in ProviderIds \cup {Null} : Lookup(op, name)
    \/ QuietHealth /\ DisconnectStart
    \/ \E i \in 1..MaxInst, ok \in BOOLEAN : DisconnectSettle(i, ok)
    \/ DisconnectReturn

SpecHealth == Init /\ [][NextHealth]_vars

\* an SQL adapter constructed on its own, and transactions on it
InitTx ==
    /\ adapters = <<>>
    /\ defaultProvider = Null
    /\ initialized = FALSE
    /\ inst \in {<<NewAdapter(p, st)>> : p \in SQLKinds, st \in {"ok", "pooled"}}
    /\ calls = [c \in CallIds |-> IdleCall]
    /\ disc = IdleDisc
    /\ last = NoCall
    /\ health = IdleHealth
    /\ txs = [t \in TxIds |-> IdleTx]
    /\ conns = [n \in ConnIds |-> IdleConn]
    /\ committed = {}
    /\ closers = [d \in CloserIds |-> IdleCloser]
    /\ exited = FALSE
    /\ docs = [k \in DocIds |-> "absent"]
    /\ dop = IdleDop
    /\ store = [k \in CacheKeys |-> NoEntry]
    /\ now = 0
    /\ cres = NoCacheCall
    /\ inv = IdleInv
    /\ sqlcall = NoSqlCall

NextTx ==
    \/ AdapterConnect(1)
    \/ \E ok \in BOOLEAN : ConnectSettle(1, ok)
    \/ \E t \in TxIds : TxStart(t, 1)
    \/ \E t \in TxIds, n \in ConnIds, ok \in BOOLEAN : TxAcquire(t, n, ok)
    \/ \E t \in TxIds, ok \in BOOLEAN : TxBegin(t, ok)
    \/ \E t \in TxIds : TxWrite(t)
    \/ \E t \in TxIds, throws \in BOOLEAN : TxBodyEnd(t, throws)
    \/ \E t \in TxIds, ok \in BOOLEAN : TxCommit(t, ok)
    \/ \E t \in TxIds, ok \in BOOLEAN : TxRollback(t, ok)

SpecTx == InitTx /\ [][NextTx]_vars

\* adapters constructed on their own; connect() and disconnect() are called
\* on each of them in any order
InitAdapter ==
    /\ adapters = <<>>
    /\ defaultProvider = Null
    /\ initialized = FALSE
    /\ inst \in [1..MaxInst -> {NewAdapter(p, st) : p \in SQLKinds, st \in {"ok", "pooled"}}]
    /\ calls = [c \in CallIds |-> IdleCall]
    /\ disc = IdleDisc
    /\ last = NoCall
    /\ health = IdleHealth
    /\ txs = [t \in TxIds |-> IdleTx]
    /\ conns = [n \in ConnIds |-> IdleConn]
    /\ committed = {}
    /\ closers = [d \in CloserIds |-> IdleCloser]
    /\ exited = FALSE
    /\ docs = [k \in DocIds |-> "absent"]
    /\ dop = IdleDop
    /\ store = [k \in CacheKeys |-> NoEntry]
    /\ now = 0
    /\ cres = NoCacheCall
    /\ inv = IdleInv
    /\ sqlcall = NoSqlCall

NextAdapter ==
    \/ \E i \in 1..MaxInst : AdapterConnect(i)
    \/ \E i \in 1..MaxInst, ok \in BOOLEAN : ConnectSettle(i, ok)
    \/ \E i \in 1..MaxInst : AdapterDisconnect(i)
    \/ \E i \in 1..MaxInst, ok \in BOOLEAN : DisconnectSettle(i, ok)

SpecAdapter == InitAdapter /\ [][NextAdapter]_vars

\* one adapter of any kind constructed on its own; every operation is
\* called on it, one call after the other, and one transaction() runs
AllOps == {"isConnected", "getClient", "healthCheck", "query", "execute"}

InitOps ==
    /\ adapters = <<>>
    /\ defaultProvider = Null
    /\ initialized = FALSE
    /\ inst \in {<<NewAdapter(p, st)>> : p \in SQLKinds \cup {"supabase"}, st \in {"ok", "pooled"}}
    /\ calls = [c \in CallIds |-> IdleCall]
    /\ disc = IdleDisc
    /\ last = NoCall
    /\ health = IdleHealth
    /\ txs = [t \in TxIds |-> IdleTx]
    /\ conns = [n \in ConnIds |-> IdleConn]
    /\ committed = {}
    /\ closers = [d \in CloserIds |-> IdleCloser]
    /\ exited = FALSE
    /\ docs = [k \in DocIds |-> "absent"]
    /\ dop = IdleDop
    /\ store = [k \in CacheKeys |-> NoEntry]
    /\ now = 0
    /\ cres = NoCacheCall
    /\ inv = IdleInv
    /\ sqlcall = NoSqlCall

NextOps ==
    \/ AdapterConnect(1)
    \/ \E ok \in BOOLEAN : ConnectSettle(1, ok)
    \/ AdapterDisconnect(1)
    \/ \E ok \in BOOLEAN : DisconnectSettle(1, ok)
    \/ \E op \in AllOps, rt \in {"ok", "threw", "error"} : AdapterOp(1, op, rt)
    \/ TxStart(1, 1)
    \/ \E ok \in BOOLEAN : TxAcquire(1, 1, ok)
    \/ \E ok \in BOOLEAN : TxBegin(1, ok)
    \/ TxWrite(1)
    \/ \E throws \in BOOLEAN : TxBodyEnd(1, throws)
    \/ \E ok \in BOOLEAN : TxCommit(1, ok)
    \/ \E ok \in BOOLEAN : TxRollback(1, ok)

SpecOps == InitOps /\ [][NextOps]_vars

\* one adapter, never connected, connected, or left by a failed connect();
\* disconnect() is called on it by callers that may overlap
AdapterStates(p, st) ==
    {NewAdapter(p, st),
     ConnectResume(ConnectCall(NewAdapter(p, st)), TRUE),
     ConnectResume(ConnectCall(NewAdapter(p, st)), FALSE)}

InitClose ==
    /\ adapters = <<>>
    /\ defaultProvider = Null
    /\ initialized = FALSE
    /\ inst \in {<<a>> : a \in UNION {AdapterStates(p, st) :
                                        p \in SQLKinds \cup {"supabase"},
                                        st \in {"ok", "pooled"}}}
    /\ calls = [c \in CallIds |-> IdleCall]
    /\ disc = IdleDisc
    /\ last = NoCall
    /\ health = IdleHealth
    /\ txs = [t \in TxIds |-> IdleTx]
    /\ conns = [n \in ConnIds |-> IdleConn]
    /\ committed = {}
    /\ closers = [d \in CloserIds |-> IdleCloser]
    /\ exited = FALSE
    /\ docs = [k \in DocIds |-> "absent"]
    /\ dop = IdleDop
    /\ store = [k \in CacheKeys |-> NoEntry]
    /\ now = 0
    /\ cres = NoCacheCall
    /\ inv = IdleInv
    /\ sqlcall = NoSqlCall

NextClose ==
    \/ \E d \in CloserIds : AdapterClose(d, 1)
    \/ \E d \in CloserIds, ok \in BOOLEAN : CloseSettle(d, 1, ok)

SpecClose == InitClose /\ [][NextClose]_vars

\* the server process: initialize() once at start, then signals
NextShutdown ==
    \/ last = NoCall /\ Quiet /\ \E cfg \in ConcConfigs : InitializeStart(1, cfg)
    \/ \E i \in 1..MaxInst, ok \in BOOLEAN : ConnectSettle(i, ok)
    \/ InitializeReturn(1)
    \/ \E d \in CloserIds : ShutdownStart(d)
    \/ \E d \in CloserIds, i \in 1..MaxInst, ok \in BOOLEAN : CloseSettle(d, i, ok)
    \/ \E d \in CloserIds : ShutdownExit(d)

SpecShutdown == Init /\ [][NextShutdown]_vars

\* a collection of any content; the operations of both wrappers are called
\* on it, one call after the other
InitDocs ==
    /\ adapters = <<>>
    /\ defaultProvider = Null
    /\ initialized = FALSE
    /\ inst = <<>>
    /\ calls = [c \in CallIds |-> IdleCall]
    /\ disc = IdleDisc
    /\ last = NoCall
    /\ health = IdleHealth
    /\ txs = [t \in TxIds |-> IdleTx]
    /\ conns = [n \in ConnIds |-> IdleConn]
    /\ committed = {}
    /\ closers = [d \in CloserIds |-> IdleCloser]
    /\ exited = FALSE
    /\ docs \in [DocIds -> FieldValues \cup {"absent"}]
    /\ dop = IdleDop
    /\ store = [k \in CacheKeys |-> NoEntry]
    /\ now = 0
    /\ cres = NoCacheCall
    /\ inv = IdleInv
    /\ sqlcall = NoSqlCall

NextDocs ==
    \/ \E kind \in DocKinds, op \in DocOps, f \in Filters, u \in FieldValues,
          ok \in BOOLEAN : DocOpStart(kind, op, f, u, ok)
    \/ \E ok \in BOOLEAN : DocWrite(ok)

SpecDocs == InitDocs /\ [][NextDocs]_vars

\* one SQL adapter and transaction() calls on it that overlap; the pool
\* holds a connection for each of them
PoolTxIds == 1..(MaxTx + 1)

InitPool ==
    /\ adapters = <<>>
    /\ defaultProvider = Null
    /\ initialized = FALSE
    /\ inst \in {<<NewAdapter(p, st)>> : p \in SQLKinds, st \in {"ok", "pooled"}}
    /\ calls = [c \in CallIds |-> IdleCall]
    /\ disc = IdleDisc
    /\ last = NoCall
    /\ health = IdleHealth
    /\ txs = [t \in PoolTxIds |-> IdleTx]
    /\ conns = [n \in PoolTxIds |-> IdleConn]
    /\ committed = {}
    /\ closers = [d \in CloserIds |-> IdleCloser]
    /\ exited = FALSE
    /\ docs = [k \in DocIds |-> "absent"]
    /\ dop = IdleDop
    /\ store = [k \in CacheKeys |-> NoEntry]
    /\ now = 0
    /\ cres = NoCacheCall
    /\ inv = IdleInv
    /\ sqlcall = NoSqlCall

NextPool ==
    \/ AdapterConnect(1)
    \/ \E ok \in BOOLEAN : ConnectSettle(1, ok)
    \/ \E t \in PoolTxIds : TxStart(t, 1)
    \/ \E t \in PoolTxIds, n \in PoolTxIds, ok \in BOOLEAN : TxAcquire(t, n, ok)
    \/ \E t \in PoolTxIds, ok \in BOOLEAN : TxBegin(t, ok)
    \/ \E t \in PoolTxIds, throws \in BOOLEAN : TxBodyEnd(t, throws)
    \/ \E t \in PoolTxIds, ok \in BOOLEAN : TxCommit(t, ok)
    \/ \E t \in PoolTxIds, ok \in BOOLEAN : TxRollback(t, ok)

SpecPool == InitPool /\ [][NextPool]_vars

\* one initialize() call, and one disconnect() call made while it is
\* awaiting its connect attempts
NextOverlap ==
    \/ last = NoCall /\ Quiet /\ \E cfg \in ConcConfigs : InitializeStart(1, cfg)
    \/ \E i \in 1..MaxInst, ok \in BOOLEAN : ConnectSettle(i, ok)
    \/ InitializeReturn(1)
    \/ /\ calls[1].pc = "awaiting"
       /\ \A i \in 1..Len(inst) : inst[i].disconnectP = "none"
       /\ DisconnectStart
    \/ \E i \in 1..MaxInst, ok \in BOOLEAN : DisconnectSettle(i, ok)
    \/ DisconnectReturn

SpecOverlap == Init /\ [][NextOverlap]_vars

\* the operations of both wrappers on a collection other clients write
\* to at any moment
NextRace ==
    \/ \E kind \in DocKinds, op \in DocOps, f \in Filters, u \in FieldValues,
          ok \in BOOLEAN : DocOpStart(kind, op, f, u, ok)
    \/ \E ok \in BOOLEAN : DocWrite(ok)
    \/ \E k \in DocIds, v \in FieldValues \cup {"absent"} : OtherWriter(k, v)

SpecRace == InitDocs /\ [][NextRace]_vars

\* a MemoryCache: its operations in any order, the clock and the cleanup
\* interval
NextCache ==
    \/ \E k \in CacheKeys, v \in 0..MaxValue, ttl \in TTLs : CacheSet(k, v, ttl)
    \/ \E k \in CacheKeys : CacheGet(k)
    \/ \E k \in CacheKeys : CacheHas(k)
    \/ \E k \in CacheKeys : CacheDelete(k)
    \/ \E k \in CacheKeys, amount \in 0..1 : CacheIncrement(k, amount)
    \/ Tick
    \/ Cleanup

SpecCache == Init /\ [][NextCache]_vars

\* invalidateOnWrite() calls, one at a time, on a cache that is written
\* to and read at any moment
NextInvalidate ==
    \/ \E k \in CacheKeys, v \in 0..MaxValue : CacheSet(k, v, NoTTL)
    \/ \E k \in CacheKeys : CacheGet(k)
    \/ \E keys \in SUBSET CacheKeys : InvalidateStart(keys)
    \/ \E ok \in BOOLEAN, r \in WriteResults : InvalidateSettle(ok, r)

SpecInvalidate == Init /\ [][NextInvalidate]_vars

\* a SQL helper applied to any statement, or to any pair of objects; the
\* helpers keep no state, so one call stands for every call
NextSql ==
    \/ sqlcall = NoSqlCall /\ \E p \in SQLKinds, st \in Statements : SqlExecute(p, st)
    \/ sqlcall = NoSqlCall /\ \E data \in Objects, where \in Objects : SqlUpdate(data, where)

SpecSql == Init /\ [][NextSql]_vars

\* ---- claims ------------------------------------------------------------------
\* an entry the loop should register: a registered provider whose settings
\* pass the adapter constructor
ValidEntry(e) == e.id \in KnownProviders /\ e.settings \in {"ok", "pooled"}
ValidIds(cfg) ==
    {cfg.providers[k].id : k \in {j \in 1..Len(cfg.providers) : ValidEntry(cfg.providers[j])}}
\* an unknown provider id, or settings the constructor rejects
InvalidIds(cfg) ==
    {cfg.providers[k].id : k \in {j \in 1..Len(cfg.providers) : ~ValidEntry(cfg.providers[j])}}
\* the invalid providers that have settings at all: these are logged
LoggedIds(cfg) ==
    {cfg.providers[k].id :
        k \in {j \in 1..Len(cfg.providers) :
                 ~ValidEntry(cfg.providers[j]) /\ cfg.providers[j].settings # "none"}}
\* the steps in which an initialize() call enters and leaves its await
Started(c) == calls[c].pc = "idle" /\ calls'[c].pc = "awaiting"
Returned(c) == calls[c].pc = "awaiting" /\ calls'[c].pc = "idle"

Mixed(cfg) == cfg.hasProviders /\ ValidIds(cfg) # {} /\ InvalidIds(cfg) # {}

\* C1: initialize(config) on a config with a valid and an invalid provider
\* registers every valid provider and none of the invalid ones, and returns
\* normally with the valid providers in providers() and get(validId) succeeding.
C1_MixedConfigInitializes ==
    [][ \A c \in CallIds :
          /\ (Started(c) /\ Mixed(calls'[c].config)) =>
                LET cfg == calls'[c].config
                IN  /\ \A v \in ValidIds(cfg) : v \in KeySet(adapters') /\ (get(v).ok)'
                    /\ \A u \in InvalidIds(cfg) :
                          u \in KeySet(adapters') => u \in KeySet(adapters)
                    /\ LoggedIds(cfg) = calls'[c].skipped
                    /\ {inst'[i].provider : i \in calls'[c].promises} = ValidIds(cfg)
          /\ (Returned(c) /\ Mixed(calls[c].config)) =>
                /\ last'.outcome = "returned"
                /\ \A v \in ValidIds(calls[c].config) :
                      /\ v \in {providers'[k] : k \in 1..Len(providers')}
                      /\ (get(v).ok)'
                      /\ (get(v).adapter)' \in calls[c].promises
      ]_vars

\* initialize returned after passing over an invalid provider, and a valid
\* provider of the same config is registered
C1_Witness ==
    /\ last.op = "initialize" /\ last.outcome = "returned"
    /\ last.skipped # {}
    /\ \E v \in KnownProviders \ last.skipped : has(v) /\ get(v).ok

\* C2: once initialize has returned, no adapter whose connect() was rejected
\* is in the adapter set (providers(), has, get).
C2_FailedConnectExcluded ==
    (initialized /\ Quiet) =>
        \A k \in 1..Len(adapters) : inst[adapters[k].inst].connectP # "rejected"

\* C3: every constructed adapter's connect() is started before initialize
\* awaits, initialize returns only when each of its connect attempts has
\* settled, and the settling of one attempt (fulfilled or rejected) leaves
\* every other attempt and every frame as it was.
C3_AllSettledNoShortCircuit ==
    [][ /\ \A c \in CallIds :
              /\ Started(c) =>
                    /\ Cardinality(calls'[c].promises) =
                           Cardinality(ValidIds(calls'[c].config))
                    /\ \A i \in calls'[c].promises : inst'[i].connectP = "pending"
              /\ Returned(c) =>
                    \A i \in calls[c].promises :
                        inst[i].connectP \in {"fulfilled", "rejected"}
        /\ \A i \in 1..MaxInst, ok \in BOOLEAN :
              ConnectSettle(i, ok) =>
                  /\ calls' = calls /\ adapters' = adapters
                  /\ \A j \in 1..Len(inst) : j # i => inst'[j] = inst[j]
      ]_vars

\* initialize returned with one connect rejected and another fulfilled
C3_Witness ==
    /\ last.op = "initialize" /\ last.outcome = "returned" /\ initialized
    /\ \E j, k \in 1..Len(adapters) :
          /\ inst[adapters[j].inst].connectP = "rejected"
          /\ inst[adapters[k].inst].connectP = "fulfilled"

\* C4: initialize() on an initialized manager constructs nothing, connects
\* nothing and leaves adapters, defaultProvider and initialized unchanged.
C4_SecondInitializeNoOp ==
    [][ initialized =>
            /\ \A c \in CallIds : ~Started(c)
            /\ (last' # last /\ last'.op = "initialize" /\ calls' = calls) =>
                  /\ last'.outcome = "already initialized"
                  /\ UNCHANGED <<adapters, defaultProvider, initialized, inst>>
      ]_vars

\* a second initialize was answered with the warning
C4_Witness ==
    /\ initialized
    /\ last.op = "initialize" /\ last.outcome = "already initialized"
    /\ Len(adapters) > 0

\* C5: no provider id has two adapter instances that were asked to connect
\* and on which disconnect() was never called.
Open(i) == inst[i].connectP # "none" /\ inst[i].disconnectP = "none"
C5_OneInstancePerProvider ==
    \A i, j \in 1..Len(inst) :
        (i # j /\ inst[i].provider = inst[j].provider) => ~(Open(i) /\ Open(j))

\* the transaction() calls that have returned or thrown
DoneTx == {t \in TxIds : txs[t].pc = "done"}
\* those among them made on an adapter that is connected
DoneOnConnected == {t \in DoneTx : isConnected(inst[txs[t].inst])}

C7_BodyErrorPropagates ==
    \A t \in DoneOnConnected :
        txs[t].body = "threw" => (txs[t].outcome = "threw" /\ txs[t].value = "E")

\* C8: when body throws after writing through its handle, none of its
\* writes is visible to a later query.
C8_NoWriteVisibleAfterThrow ==
    \A t \in DoneOnConnected :
        txs[t].body = "threw" => \A k \in 1..MaxWrites : <<t, k>> \notin committed

\* the providers with a live adapter: registered, connect() fulfilled and
\* still connected
LiveIds ==
    {adapters[k].key :
        k \in {j \in 1..Len(adapters) :
                 /\ inst[adapters[j].inst].connectP = "fulfilled"
                 /\ isConnected(inst[adapters[j].inst])}}

SeqRange(q) == {q[k] : k \in 1..Len(q)}

\* C9: between manager calls, get(id) of a provider without a live adapter
\* fails and its message lists exactly the live provider ids.
C9_GetFailsListingLive ==
    Quiet =>
        \A id \in ProviderIds \ LiveIds :
            /\ ~get(id).ok
            /\ get(id).error = "not found"
            /\ SeqRange(get(id).available) = LiveIds

\* C10: with no default configured, default() returns the live adapter when
\* exactly one is live and fails with 'No database adapters available' when
\* none is.
C10_DefaultWithoutConfiguredDefault ==
    (Quiet /\ defaultProvider = Null) =>
        /\ Cardinality(LiveIds) = 1 =>
              (default.ok /\ inst[default.adapter].provider \in LiveIds)
        /\ LiveIds = {} =>
              (~default.ok /\ default.error = "No database adapters available")

\* C11: between manager calls, whenever no adapter is live (a default
\* configured or not, after disconnect(), after an initialize() that skipped
\* every provider), default() fails with 'No database adapters available'.
C11_DefaultFailsWhenNoneLive ==
    (Quiet /\ LiveIds = {}) =>
        (~default.ok /\ default.error = "No database adapters available")

\* the configured default is registered and its connect() was rejected
DefaultFailed ==
    /\ Quiet
    /\ initialized
    /\ defaultProvider # Null
    /\ has(defaultProvider)
    /\ inst[MapGet(adapters, defaultProvider)].connectP = "rejected"

\* C12: when the configured default's connect() failed during initialize(),
\* default() returns that provider's adapter, never another provider's, and
\* query/execute on the returned adapter fail with the not-connected error.
C12_FailedDefaultNotSubstituted ==
    DefaultFailed =>
        /\ default.ok
        /\ inst[default.adapter].provider = defaultProvider
        /\ QueryGuard(inst[default.adapter]) = "not connected"

\* C13: with no default configured and an adapter live, default() returns a
\* live adapter, and the same one at every call until disconnect().
C13_DefaultIsFirstLive ==
    [][ (/\ Quiet /\ initialized /\ defaultProvider = Null /\ LiveIds # {}
         /\ Quiet' /\ initialized') =>
            /\ default.ok
            /\ inst[default.adapter].provider \in LiveIds
            /\ default' = default ]_vars

\* the steps in which a disconnect() call enters and leaves its await
DiscStarted == disc.pc = "idle" /\ disc'.pc = "awaiting"
DiscReturned == disc.pc = "awaiting" /\ disc'.pc = "idle"

\* C14: disconnect() called twice in a row raises no error either time, and
\* after the first and after the second call providers() is empty and
\* initialized is false.
C14_DisconnectIdempotent ==
    [][ /\ DiscReturned =>
              /\ last'.op = "disconnect" /\ last'.outcome = "returned"
              /\ providers' = <<>>
              /\ ~initialized'
        /\ (DiscStarted /\ last.op = "disconnect") =>
              /\ disc'.promises = {}
              /\ inst' = inst
              /\ providers' = <<>>
              /\ ~initialized' ]_vars

\* the second of two disconnect() calls in a row is running, and in the
\* first an adapter's disconnect() was rejected
C14_Witness ==
    /\ disc.pc = "awaiting"
    /\ last = Done("disconnect", "returned")
    /\ providers = <<>>
    /\ \E i \in 1..Len(inst) : inst[i].disconnectP = "rejected"

\* C15: disconnect() calls disconnect() on every adapter of the map, waits
\* for every one of them whether or not another was rejected, raises
\* nothing, clears the map and resets initialized; an initialize(config)
\* after it constructs and connects adapters again.
C15_DisconnectAllThenReinitialize ==
    [][ /\ DiscStarted =>
              /\ disc'.promises = {i \in 1..Len(inst) : InMap(i)}
              /\ \A i \in disc'.promises : inst'[i].disconnectP # "none"
        /\ DiscReturned =>
              /\ \A i \in disc.promises : inst[i].disconnectP \in {"fulfilled", "rejected"}
              /\ last'.outcome = "returned"
              /\ adapters' = <<>>
              /\ ~initialized'
        /\ \A c \in CallIds :
              (Started(c) /\ last.op = "disconnect") =>
                 /\ KeySet(adapters') = ValidIds(calls'[c].config)
                 /\ Cardinality(calls'[c].promises) = Cardinality(ValidIds(calls'[c].config))
                 /\ \A i \in calls'[c].promises :
                       /\ i > Len(inst)
                       /\ InMap(i)'
                       /\ inst'[i].connectP = "pending" ]_vars

\* an initialize() after a disconnect() in which one adapter's disconnect()
\* was rejected has constructed a new adapter and connected it
C15_Witness ==
    /\ initialized
    /\ Quiet
    /\ last.op = "initialize"
    /\ \E i, j \in 1..Len(inst) :
          /\ inst[i].disconnectP = "rejected" /\ ~InMap(i)
          /\ InMap(j) /\ inst[j].connectP = "fulfilled" /\ isConnected(inst[j])

\* C18: initialize(config) with a providers mapping on an uninitialized
\* manager goes through the fan-out and returns with initialized = true,
\* also when no adapter was constructed or no connect() succeeded.
C18_InitializedAfterFanOut ==
    [][ /\ \A c \in CallIds :
              /\ Returned(c) => (initialized' /\ last'.outcome = "returned")
              /\ Started(c) => (calls'[c].config.hasProviders /\ ~initialized)
        /\ (/\ ~initialized /\ calls' = calls
            /\ last' # last /\ last'.op = "initialize") =>
              last'.outcome = "no providers" ]_vars

\* initialize() has returned although it constructed no adapter
C18_Witness ==
    /\ initialized
    /\ Quiet
    /\ last.op = "initialize" /\ last.outcome = "returned"
    /\ last.skipped # {}
    /\ adapters = <<>>

\* the step in which healthCheck() returns its mapping
HealthReturned == health.pc # "done" /\ health'.pc = "done"
HealthKeys(h) == {h.results[k].key : k \in 1..Len(h.results)}
\* the providers whose adapter healthCheck() has been called so far
HealthStarted == {adapters[k].key : k \in 1..health.pos}

\* C16: healthCheck() returns a mapping whose keys are exactly the live
\* provider ids, the set providers() returns, each with the boolean of that
\* adapter's healthCheck(); a false entry does not prevent the others.
C16_HealthCheckCoversLive ==
    [][ HealthReturned =>
          /\ HealthKeys(health') = LiveIds
          /\ HealthKeys(health') = SeqRange(providers)
          /\ Len(health'.results) = Len(providers)
          /\ \A k \in 1..Len(health'.results) :
                health'.results[k].value =>
                   AdapterHealth(inst[MapGet(adapters, health'.results[k].key)], TRUE) ]_vars

\* C17: while healthCheck() is waiting, the healthCheck() of every adapter
\* has been started: none waits for a slow or hanging one.
C17_HealthChecksIndependent ==
    health.pc = "awaiting" => HealthStarted = KeySet(adapters)

\* C19 as stated: isConnected() becomes true only when a connect() succeeds,
\* and once disconnect() has completed on an instance no later call makes
\* isConnected() true again.
C19_DisconnectedIsTerminal ==
    [][ \A i \in 1..Len(inst) :
          /\ (~isConnected(inst[i]) /\ isConnected(inst'[i])) =>
                (inst[i].connectP = "pending" /\ inst'[i].connectP = "fulfilled")
          /\ inst[i].disconnectP = "fulfilled" => ~isConnected(inst'[i]) ]_vars

\* C19: isConnected() becomes true only when a connect() called on the
\* instance succeeds, never while it is connecting or after it failed, and
\* becomes false only when disconnect() closes the instance; a connect()
\* after disconnect() is a new attempt that may connect the instance again.
C19_ConnectedOnlyThroughConnect ==
    [][ \A i \in 1..Len(inst) :
          /\ (~isConnected(inst[i]) /\ isConnected(inst'[i])) =>
                (inst[i].connectP = "pending" /\ inst'[i].connectP = "fulfilled")
          /\ (isConnected(inst[i]) /\ ~isConnected(inst'[i])) =>
                inst'[i] = Closed(inst[i])
          /\ inst[i].connectP = "rejected" => ~isConnected(inst[i]) ]_vars

\* an instance that was disconnected is connected again
C19_Witness ==
    \E i \in 1..Len(inst) :
        /\ inst[i].disconnectP = "fulfilled"
        /\ inst[i].connectP = "fulfilled"
        /\ isConnected(inst[i])

\* no connect() has succeeded on the instance: it was never called, or it
\* was called and failed, and the instance was never disconnected
NeverConnected(a) ==
    /\ ~a.connected
    /\ a.disconnectP = "none"
    /\ a.connectP \in {"none", "rejected"}

\* C20: getClient() fails with the not-initialized error as long as no
\* connect() on the instance has succeeded, and returns the native handle
\* once one has.
C20_GetClientNeedsConnect ==
    \A i \in 1..Len(inst) :
        /\ NeverConnected(inst[i]) =>
              (~getClient(inst[i]).ok /\ getClient(inst[i]).error = "not initialized")
        /\ isConnected(inst[i]) => getClient(inst[i]).ok

\* the step in which the operation op completes with a new outcome
OpDone(op) == last' # last /\ last'.op = op

\* not connected: never connected, the connect() failed, or disconnected
NotConnected(a) == ~isConnected(a) /\ a.connectP # "pending"

\* C21: query and execute on an instance that is not connected fail with
\* the not-connected error and send nothing to the driver, transaction is
\* stopped by its guard; an error of the driver reaches the caller.
C21_NotConnectedOperationsFail ==
    [][ \A i \in 1..Len(inst) :
          /\ NotConnected(inst[i]) =>
                /\ \A op \in {"query", "execute"} :
                      OpDone(op) => (last'.outcome = "not connected" /\ last'.trip = "none")
                /\ inst[i].provider \in SQLKinds => TxGuard(inst[i]) # "none"
          /\ \A op \in {"query", "execute"} :
                (OpDone(op) /\ last'.trip = "threw") => last'.outcome = "threw" ]_vars

\* C22: healthCheck() never throws, returns true only when the round trip
\* succeeded, and false without a handle or when the round trip failed by
\* a thrown error or an error result.
C22_HealthCheckCollapsesFailures ==
    [][ OpDone("healthCheck") =>
          /\ last'.outcome \in {"true", "false"}
          /\ last'.outcome = "true" <=> last'.trip = "ok" ]_vars

C27_NoAutomaticRetry ==
    [][ /\ \A c \in CallIds :
              Started(c) =>
                 /\ calls'[c].promises = (1..Len(inst')) \ (1..Len(inst))
                 /\ calls'[c].connects = Cardinality(calls'[c].promises)
        /\ \A i \in 1..Len(inst) :
              /\ inst'[i].connectP = "pending" => inst[i].connectP = "pending"
              /\ inst[i].connectP \in {"fulfilled", "rejected"} =>
                    inst'[i].connectP = inst[i].connectP ]_vars

\* a later initialize() has returned on a manager that holds an adapter
\* whose connect() was rejected, and the rejection still stands
C27_Witness ==
    /\ initialized
    /\ Quiet
    /\ last.op = "initialize" /\ last.outcome = "already initialized"
    /\ \E i \in 1..Len(inst) : InMap(i) /\ inst[i].connectP = "rejected"

\* C29: when initialize(config) stores a default, it names a key of
\* config.providers.
C29_DefaultNamesConfiguredProvider ==
    [][ \A c \in CallIds :
          (Started(c) /\ defaultProvider' # Null) =>
             \E k \in 1..Len(calls'[c].config.providers) :
                calls'[c].config.providers[k].id = defaultProvider' ]_vars

\* a lookup has completed, or healthCheck() has moved on
ReadStep == (last' # last /\ last'.op \in LookupOps) \/ health' # health

\* C25: get, default, has, providers, the shorthands and healthCheck leave
\* adapters, defaultProvider and initialized unchanged, and from the return
\* of initialize() to the start of disconnect() providers() stays the same.
C25_LookupsAreReadOnly ==
    [][ /\ ReadStep => UNCHANGED <<adapters, defaultProvider, initialized>>
        /\ (Quiet /\ initialized /\ Quiet' /\ initialized') =>
              providers' = providers ]_vars

\* a lookup has answered while healthCheck() waits for the second of two
\* registered adapters
C25_Witness ==
    /\ initialized
    /\ Quiet
    /\ Len(adapters) = 2
    /\ health.pc = "awaiting" /\ health.pos = 2
    /\ last.op = "get" /\ last.outcome = "returned"

\* C23: a second disconnect() on an adapter, sequential or started while
\* the first awaits the driver's close, raises no error, does not close the
\* pool again, and has left isConnected() false when it is over
C23_AdapterDisconnectIdempotent ==
    \A d \in CloserIds :
        (closers[d].kind = "adapter" /\ closers[d].nth >= 2) =>
            /\ closers[d].ended = {}
            /\ closers[d].outcome # "threw"
            /\ closers[d].pc = "done" =>
                  \A i \in DOMAIN closers[d].p : ~isConnected(inst[i])

\* C30: the process exits only after the disconnect() of every adapter
\* that was live at a signal has settled, also when a second signal
\* arrives during the first shutdown
C30_ExitAfterDisconnectSettled ==
    exited => \A d \in CloserIds : \A i \in DOMAIN closers[d].p :
                  inst[i].connectP = "fulfilled" => closers[d].p[i] # "pending"

\* C24: an update or delete of either wrapper whose filter matches no
\* document returns a count of 0, does not throw, and leaves the
\* collection as it was (the round trip to the backend succeeding)
C24_NoMatchReturnsZero ==
    (dop.pc = "done" /\ dop.trip = "ok" /\ Matching(dop.before, dop.filter) = {}) =>
        /\ dop.outcome = "returned"
        /\ dop.count = 0
        /\ docs = dop.before

\* Firestore updateMany returned 0 on a collection that holds documents,
\* none of which the filter matches
C24_Witness ==
    /\ dop.pc = "done" /\ dop.kind = "firestore" /\ dop.op = "updateMany"
    /\ dop.filter = "b" /\ Matching(docs, "a") # {} /\ Matching(docs, "b") = {}
    /\ dop.outcome = "returned" /\ dop.count = 0 /\ docs = dop.before

\* the transaction() calls that hold a connection of the pool
Holding == {t \in DOMAIN txs : txs[t].pc \in {"begin", "body", "commit", "rollback"}}

\* C28: transactions in flight together hold distinct connections, a
\* held connection is lent to its transaction alone and not yet released,
\* and a finished transaction() released the connection it acquired
\* exactly once, after COMMIT or ROLLBACK, whatever the outcome
C28_ConnectionOwnedAndReleasedOnce ==
    /\ \A t \in Holding, u \in Holding : t # u => txs[t].conn # txs[u].conn
    /\ \A t \in Holding : conns[txs[t].conn].busy /\ txs[t].released = 0
    /\ \A n \in DOMAIN conns : conns[n].busy => \E t \in Holding : txs[t].conn = n
    /\ \A t \in DOMAIN txs : txs[t].pc = "done" =>
          IF txs[t].conn = 0 THEN txs[t].released = 0
          ELSE /\ txs[t].released = 1
               /\ txs[t].issued[Len(txs[t].issued)] \in {"COMMIT", "ROLLBACK"}

\* one transaction() ended after its COMMIT failed and released its
\* connection, while another is in its body on a connection of its own
C28_Witness ==
    \E t \in DOMAIN txs, u \in DOMAIN txs :
        /\ t # u
        /\ txs[t].pc = "done" /\ txs[t].value = "commit failed" /\ txs[t].released = 1
        /\ txs[u].pc = "body" /\ conns[txs[u].conn].busy

\* C31: once an initialize() and a disconnect() called during its await
\* have both completed, no adapter is connected outside the adapter map,
\* and the manager is not initialized with an empty map
C31_DisconnectDuringInitialize ==
    (/\ Quiet /\ last.op # "none"
     /\ \E i \in 1..Len(inst) : inst[i].disconnectP # "none") =>
        /\ \A i \in 1..Len(inst) : isConnected(inst[i]) => InMap(i)
        /\ ~(initialized /\ adapters = <<>>)

\* C32: the write of a Firestore updateOne/deleteOne changes at most one
\* document and only one that matches the filter, does not throw when the
\* round trip succeeds, and a returned count of 1 means the document it
\* wrote to matched the filter, also when another writer came in between
C32_OneMatchingDocumentWritten ==
    [][ (/\ dop.pc = "found" /\ dop'.pc = "done"
         /\ dop.op \in {"updateOne", "deleteOne"}) =>
            /\ dop'.trip = "ok" => dop'.outcome = "returned"
            /\ Cardinality({k \in DocIds : docs'[k] # docs[k]}) <= 1
            /\ \A k \in DocIds : docs'[k] # docs[k] => k \in Matching(docs, dop.filter)
            /\ (dop'.outcome = "returned" /\ dop'.count = 1) =>
                  Lowest(dop.found) \in Matching(docs, dop.filter)
      ]_vars

\* an entry that is in the store and has not expired at time t
Fresh(e, t) == e.present /\ t <= e.expiresAt

\* C35: increment() of an existing unexpired key leaves the entry with an
\* expiry time that is not later than the one it had
C35_IncrementKeepsExpiry ==
    (cres.op = "increment" /\ Fresh(cres.before, cres.at)) =>
        cres.after.expiresAt <= cres.before.expiresAt

\* C36: invalidateOnWrite deletes nothing when it is called; when writeFn
\* resolves it deletes exactly the given keys and returns that result;
\* when writeFn rejects it deletes nothing and the call throws
C36_InvalidateAfterWrite ==
    [][ /\ (inv.pc # "awaiting" /\ inv'.pc = "awaiting") => store' = store
        /\ (inv.pc = "awaiting" /\ inv'.pc = "done") =>
              IF inv'.resolved # "none"
              THEN /\ inv'.outcome = "returned" /\ inv'.result = inv'.resolved
                   /\ \A k \in CacheKeys :
                         store'[k] = IF k \in inv.keys THEN NoEntry ELSE store[k]
              ELSE inv'.outcome = "threw" /\ store' = store
      ]_vars

\* after a key was read from the cache, an invalidation of both keys
\* whose writeFn resolved has emptied the store and passed the result on
C36_Witness ==
    /\ inv.pc = "done" /\ inv.keys = CacheKeys /\ inv.outcome = "returned"
    /\ inv.result = "r2"
    /\ \A k \in CacheKeys : ~store[k].present
    /\ cres.op = "get" /\ cres.found

\* C37: get() returns a value only from an entry that has not expired,
\* a get() or has() of an expired entry removes it, and has() is true
\* exactly when get() would return a value
C37_NoExpiredValue ==
    /\ (cres.op = "get" /\ cres.found) =>
          Fresh(cres.before, cres.at) /\ cres.value = cres.before.value
    /\ (cres.op \in {"get", "has"} /\ cres.before.present
        /\ ~Fresh(cres.before, cres.at)) => ~cres.after.present
    /\ cres.op \in {"get", "has"} => (cres.found <=> Fresh(cres.before, cres.at))

\* a has() found an expired entry, answered false and removed it
C37_Witness ==
    /\ cres.op = "has" /\ cres.before.present /\ cres.at > cres.before.expiresAt
    /\ ~cres.found /\ ~store[cres.key].present

\* C33: execute() returns the number of rows the statement affected
C33_ExecuteReportsAffectedRows ==
    sqlcall.fn = "execute" => sqlcall.affectedRows = sqlcall.stmt.affected

\* C38: update() binds placeholder $k to the k-th element of params, the
\* data values first and the where values after them, each in key order,
\* and the placeholders are $1..$n with n the number of keys of both
C38_UpdatePlaceholdersBound ==
    sqlcall.fn = "update" =>
        LET nd == Len(sqlcall.data)
            nw == Len(sqlcall.where)
        IN  /\ Len(sqlcall.params) = nd + nw
            /\ Len(sqlcall.set) = nd /\ Len(sqlcall.cond) = nw
            /\ \A k \in 1..nd :
                  /\ sqlcall.set[k].key = sqlcall.data[k].key
                  /\ sqlcall.set[k].ph = k
                  /\ sqlcall.params[sqlcall.set[k].ph] = sqlcall.data[k].value
            /\ \A j \in 1..nw :
                  /\ sqlcall.cond[j].key = sqlcall.where[j].key
                  /\ sqlcall.cond[j].ph = nd + j
                  /\ sqlcall.params[sqlcall.cond[j].ph] = sqlcall.where[j].value

\* an update of two columns by two conditions, the same column among both
\* with different values
C38_Witness ==
    /\ sqlcall.fn = "update"
    /\ Len(sqlcall.data) = 2 /\ Len(sqlcall.where) = 2
    /\ sqlcall.data[1].key = sqlcall.where[2].key
    /\ sqlcall.data[1].value # sqlcall.where[2].value
    /\ sqlcall.cond[2].ph = 4

\* the three lookups give the same answer for every provider id, and the
\* adapter get() returns is of the provider asked for
LookupsAgree ==
    \A p \in ProviderIds :
        /\ has(p) <=> (\E k \in 1..Len(providers) : providers[k] = p)
        /\ has(p) <=> get(p).ok
        /\ get(p).ok => inst[get(p).adapter].provider = p

\* get(id) returns the adapter constructed from the settings, on which
\* connect() was called
RegisteredAs(id, st) ==
    get(id).ok /\ inst[get(id).adapter] = ConnectCall(NewAdapter(id, st))

\* C34: has(p), membership in providers() and success of get(p) agree in
\* every state, and the adapter an initialize() registers under p is the
\* one constructed from config.providers[p]
C34_LookupViewsAgree ==
    [][ /\ LookupsAgree'
        /\ \A c \in CallIds : Started(c) =>
              \A id \in KnownProviders, st \in {"ok", "pooled"} :
                 (\E k \in 1..Len(calls'[c].config.providers) :
                     calls'[c].config.providers[k] = [id |-> id, settings |-> st])
                 => RegisteredAs(id, st)'
      ]_vars

\* two providers registered, one of which failed to connect, and a third
\* id that no lookup knows
C34_Witness ==
    /\ initialized /\ Quiet /\ Len(adapters) = 2
    /\ \E p \in ProviderIds : ~has(p) /\ ~get(p).ok
    /\ \E q \in ProviderIds : has(q) /\ inst[get(q).adapter].connectP = "rejected"

TypeOK ==
    /\ Len(inst) <= MaxInst
    /\ initialized \in BOOLEAN
    /\ defaultProvider \in ProviderIds \cup {Null}
====
